---- MODULE Spec2Model ----
(***************************************************************************)
(* Model of ynab.py: the YNAB5 -> beancount import script.                 *)
(*                                                                         *)
(* The state is that of the script's __main__ block: the parsed ledger,    *)
(* the lookup tables fetched from YNAB, the deduplication set              *)
(* seen_transactions, the import counter, the text printed so far and the  *)
(* warnings logged so far.  One action models one whole iteration of the   *)
(* import loop (lines 372-422); the start-up steps (ledger scan, inflows   *)
(* resolution) are actions of their own.                                   *)
(*                                                                         *)
(* Abstractions: dates, amounts and memo text of the printed lines are not *)
(* modelled (no operation of the loop branches on them); a printed entry   *)
(* is kept as the record of its ynab-id line, its source posting account   *)
(* and its target posting accounts.  Names in the lookup tables are the    *)
(* names as stored, i.e. after ynab_normalize has been applied at load.    *)
(***************************************************************************)
EXTENDS Integers, Sequences, FiniteSets, TLC

VARIABLES
    beancount_entries,      \* parsed ledger: sequence of directives
    args,                   \* CLI options read by the loop
    ynab_accounts,          \* id -> Account
    ynab_category_groups,   \* id -> CategoryGroup
    ynab_categories,        \* id -> Category
    remote,                 \* transactions the service can return
    seen_transactions,      \* the deduplication set
    account_mapping,        \* ynab id -> ledger account from Open directives
    inflows_category_id,    \* resolved at lines 347-352
    count,                  \* number of imported transactions
    out,                    \* entries printed so far
    warned,                 \* positions of the records a warning was logged for
    fetched,                \* the records of ynab_transactions consumed so far
    i,                      \* number of records consumed in this run
    pc,                     \* position of the script
    run,                    \* 1 for the first run, 2 for a second run
    replay,                 \* ynab_transactions of the second run
    first,                  \* what the first run ended with
    bean                    \* last (id, result) of a to_bean call made on its own

vars == <<beancount_entries, args, ynab_accounts, ynab_category_groups,
          ynab_categories, remote, seen_transactions, account_mapping,
          inflows_category_id, count, out, warned, fetched, i, pc, run,
          replay, first, bean>>

-----------------------------------------------------------------------------
(* Bounds                                                                  *)

\* Longest list of transactions a fetch returns.
MaxTxns == 3

-----------------------------------------------------------------------------
(* Values                                                                  *)

\* Python's None (JSON null).  Falsy, and never a member of seen_transactions.
None == "None"

\* Python truthiness of an optional identifier: None and '' are falsy.
Truthy(x) == x # None /\ x # ""

\* beancount_options['name_assets'] etc. with beancount's default values.
asset_prefix == "Assets"
expense_prefix == "Expenses"
income_prefix == "Income"

\* The literals the script compares against.
StartingBalance == "Starting Balance"
ReconciliationPayee == "Reconciliation Balance Adjustment"
ReconciliationMemo == "Entered automatically by YNAB"
InternalMasterCategory == "Internal-Master-Category"
Inflows == "Inflows"
FIXME == "; FIXME. Error could only generate one leg from YNAB data."

-----------------------------------------------------------------------------
(* The ledger: directives with their metadata                              *)

NoMeta == [k \in {} |-> ""]
YnabMeta(id) == ("ynab-id" :> id)

OpenEntry(account, meta) == [type |-> "Open", meta |-> meta, account |-> account]
TxnEntry(meta) == [type |-> "Transaction", meta |-> meta, account |-> None]

RECURSIVE build_account_mapping(_)
\* Lines 83-90: later Open directives overwrite earlier ones with the same id.
build_account_mapping(entries) ==
    IF entries = <<>> THEN NoMeta
    ELSE LET n == Len(entries)
             entry == entries[n]
             mapping == build_account_mapping(SubSeq(entries, 1, n - 1))
         IN IF entry.type = "Open" /\ "ynab-id" \in DOMAIN entry.meta
            THEN (entry.meta["ynab-id"] :> entry.account) @@ mapping
            ELSE mapping

\* Lines 249-255.
get_existing_ynab_transaction_ids(entries) ==
    { entries[k].meta["ynab-id"] :
        k \in { j \in 1..Len(entries) :
                  /\ entries[j].type = "Transaction"
                  /\ "ynab-id" \in DOMAIN entries[j].meta } }

-----------------------------------------------------------------------------
(* Lookup tables and the router                                            *)

\* Lines 134-140.
fmt_ynab_category(id, groups, categories) ==
    LET c == categories[id]
        g == groups[c.category_group_id]
    IN g.name \o ":" \o c.name

\* Line 347: ids of the groups named like the internal master category.
InternalMasterIds(groups) ==
    { g \in DOMAIN groups : groups[g].name = InternalMasterCategory }

\* Line 350: ids of the Inflows categories owned by the master group.
InflowsIds(categories, master) ==
    { c \in DOMAIN categories :
        categories[c].name = Inflows /\ categories[c].category_group_id = master }

\* The router with the mapping consulted only for identifiers YNAB does not know.
to_bean_mapping_last(id) ==
    IF id \in DOMAIN ynab_accounts
    THEN asset_prefix \o ":" \o ynab_accounts[id].name
    ELSE IF id = inflows_category_id
    THEN income_prefix \o ":" \o
           fmt_ynab_category(id, ynab_category_groups, ynab_categories)
    ELSE IF id \in DOMAIN ynab_categories
    THEN expense_prefix \o ":" \o
           fmt_ynab_category(id, ynab_category_groups, ynab_categories)
    ELSE IF id \in DOMAIN account_mapping THEN account_mapping[id] ELSE id

\* Lines 354-364.  The default is computed first; the mapping then overrides it.
to_bean(id) ==
    LET bean_default ==
          IF id \in DOMAIN ynab_accounts
          THEN asset_prefix \o ":" \o ynab_accounts[id].name
          ELSE IF id = inflows_category_id
          THEN income_prefix \o ":" \o
                 fmt_ynab_category(id, ynab_category_groups, ynab_categories)
          ELSE IF id \in DOMAIN ynab_categories
          THEN expense_prefix \o ":" \o
                 fmt_ynab_category(id, ynab_category_groups, ynab_categories)
          ELSE id
    IN IF id \in DOMAIN account_mapping THEN account_mapping[id] ELSE bean_default

\* getattr(txn, 'payee_name', None): subtransactions have no payee_name.
PayeeOf(txn) == IF "payee_name" \in DOMAIN txn THEN txn.payee_name ELSE None

\* Lines 153-168.
get_target_account(txn, adjustment_account) ==
    IF /\ PayeeOf(txn) = ReconciliationPayee
       /\ txn.memo = ReconciliationMemo
       /\ Truthy(adjustment_account)
    THEN adjustment_account
    ELSE IF Truthy(txn.category_id) THEN to_bean(txn.category_id)
    ELSE IF Truthy(txn.transfer_account_id) THEN to_bean(txn.transfer_account_id)
    ELSE FIXME

-----------------------------------------------------------------------------
(* Transactions as returned by the service (lines 36-40)                   *)

Sub(id, memo, category, xfer_account, xfer_id) ==
    [id |-> id, memo |-> memo, category_id |-> category,
     transfer_account_id |-> xfer_account,
     transfer_transaction_id |-> xfer_id]

Txn(id, cleared, deleted, payee, memo, account, category, xfer_account, xfer_id, subs) ==
    [id |-> id, cleared |-> cleared, deleted |-> deleted,
     payee_name |-> payee, memo |-> memo, account_id |-> account,
     category_id |-> category, transfer_account_id |-> xfer_account,
     transfer_transaction_id |-> xfer_id,
     subtransactions |-> subs]

\* An ordinary categorised purchase.
Plain == Txn("t1", "reconciled", FALSE, "Shop", "", "a1", "c1", None, None, <<>>)
\* The two legs of a transfer, pointing at each other.
XferA == Txn("t1", "reconciled", FALSE, "Transfer", "", "a1", None, "a2", "t2", <<>>)
XferB == Txn("t2", "reconciled", FALSE, "Transfer", "", "a2", None, "a1", "t1", <<>>)
\* A split whose second part is a transfer, and the other side of that transfer.
Split == Txn("t3", "reconciled", FALSE, "Shop", "", "a1", "c1", None, None,
             << Sub("s1", "food", "c1", None, None),
                Sub("s2", "", None, "a2", "t4") >>)
SplitOther == Txn("t4", "reconciled", FALSE, "Transfer", "", "a2", None, "a1", "s2", <<>>)
\* Records that are not reconciled, or deleted.
Uncleared == Txn("t1", "uncleared", FALSE, "Transfer", "", "a1", None, "a2", "t2", <<>>)
Cleared == Txn("t2", "cleared", FALSE, "Shop", "", "a1", "c1", None, None,
               << Sub("s3", "", None, "a2", "t3") >>)
Deleted == Txn("t3", "reconciled", TRUE, "Transfer", "", "a1", None, "a2", "t1", <<>>)
\* A record of a tracking account: neither category nor transfer account.
Tracking == Txn("t3", "reconciled", FALSE, "Shop", "", "a3", None, None, None, <<>>)
\* YNAB's automatic reconciliation adjustment.
Adjustment == Txn("t2", "reconciled", FALSE, ReconciliationPayee, ReconciliationMemo,
                  "a1", None, None, None, <<>>)
\* Starting balances: budget account, tracking account, and one with another category.
StartBudget == Txn("t1", "reconciled", FALSE, StartingBalance, "", "a1", "cin", None, None, <<>>)
StartTracking == Txn("t2", "reconciled", FALSE, StartingBalance, "", "a3", None, None, None, <<>>)
StartOther == Txn("t3", "reconciled", FALSE, StartingBalance, "", "a1", "c1", None, None, <<>>)
\* A split with a part that has neither category nor transfer account.
SplitBare == Txn("t1", "reconciled", FALSE, "Shop", "", "a1", "c1", None, None,
                 << Sub("s4", "", None, None, None) >>)
\* A split whose parent has no category but whose part has one.
SplitNoCat == Txn("t2", "reconciled", FALSE, "Shop", "", "a1", None, None, None,
                  << Sub("s5", "", "c1", None, None) >>)

MainPool ==
    { Plain, XferA, XferB, Split, SplitOther, Uncleared, Cleared, Deleted,
      Tracking, Adjustment, StartBudget, StartTracking, StartOther, SplitBare,
      SplitNoCat }

RerunPool ==
    { Plain, XferA, XferB, Split, SplitOther, Tracking, Uncleared, StartBudget }

OrderPool ==
    { Plain, SplitBare, XferA, XferB, Split, SplitOther, Uncleared, StartTracking }

-----------------------------------------------------------------------------
(* Lookup tables and ledgers the runs start from                           *)

Accounts ==
    [a \in {"a1", "a2", "a3"} |->
        [id |-> a, name |-> CASE a = "a1" -> "Checking"
                              [] a = "a2" -> "Savings"
                              [] OTHER -> "Brokerage"]]

Group(id, name) == (id :> [id |-> id, name |-> name])
Category(id, name, group) ==
    (id :> [id |-> id, name |-> name, category_group_id |-> group])

Tables(accounts, groups, categories) ==
    [accounts |-> accounts, groups |-> groups, categories |-> categories]

\* One master group owning one Inflows category.
TablesOK ==
    Tables(Accounts,
           Group("g0", InternalMasterCategory) @@ Group("g1", "Bills"),
           Category("cin", Inflows, "g0") @@ Category("c1", "Rent", "g1"))
\* No master group.
TablesNoMaster ==
    Tables(Accounts, Group("g1", "Bills"), Category("c1", "Rent", "g1"))
\* Two master groups.
TablesTwoMasters ==
    Tables(Accounts,
           Group("g0", InternalMasterCategory) @@ Group("g2", InternalMasterCategory)
             @@ Group("g1", "Bills"),
           Category("cin", Inflows, "g0") @@ Category("c1", "Rent", "g1"))
\* A master group without Inflows; another group has a category of that name.
TablesNoInflows ==
    Tables(Accounts,
           Group("g0", InternalMasterCategory) @@ Group("g1", "Bills"),
           Category("c2", Inflows, "g1") @@ Category("c1", "Rent", "g1"))
\* Two Inflows categories in the master group.
TablesTwoInflows ==
    Tables(Accounts,
           Group("g0", InternalMasterCategory) @@ Group("g1", "Bills"),
           Category("cin", Inflows, "g0") @@ Category("cin2", Inflows, "g0")
             @@ Category("c1", "Rent", "g1"))

TableSetups ==
    { TablesOK, TablesNoMaster, TablesTwoMasters, TablesNoInflows, TablesTwoInflows }

LedgerEmpty == <<>>
LedgerA ==
    << OpenEntry("Assets:Bank:Checking", YnabMeta("a1")),
       TxnEntry(YnabMeta("t1")),
       TxnEntry(NoMeta),
       OpenEntry("Assets:Cash", NoMeta) >>
LedgerB ==
    << TxnEntry(YnabMeta("t3")),
       OpenEntry("Expenses:Housing", YnabMeta("c1")),
       OpenEntry("Expenses:Home:Rent", YnabMeta("c1")) >>

Ledgers == { LedgerEmpty, LedgerB }

ArgSets ==
    [skip_starting_balances : BOOLEAN,
     balance_adjustment_account : {None, "Equity:Adjustments"}]

-----------------------------------------------------------------------------
(* Tables and ledgers for the router on its own: identifiers that are at   *)
(* once mapped, an account and a category                                  *)

Account(id, name) == (id :> [id |-> id, name |-> name])

RouterIds == {"x1", "x2", "cin", "zz"}

RouterAccounts ==
    { NoMeta,
      Account("x1", "Checking"),
      Account("x1", "Checking") @@ Account("x2", "Savings"),
      Account("cin", "Odd") @@ Account("x1", "Checking") }

RouterGroups == Group("g0", InternalMasterCategory) @@ Group("g1", "Bills")

RouterCategories ==
    { Category("cin", Inflows, "g0"),
      Category("cin", Inflows, "g0") @@ Category("x1", "Rent", "g1"),
      Category("cin", Inflows, "g0") @@ Category("x1", "Rent", "g1")
        @@ Category("x2", "Power", "g1") }

RouterSetups ==
    { Tables(a, RouterGroups, c) : a \in RouterAccounts, c \in RouterCategories }

RouterLedgers ==
    { <<>>,
      << OpenEntry("Assets:Mapped:One", YnabMeta("x1")) >>,
      << OpenEntry("Income:Mapped:Salary", YnabMeta("cin")),
         OpenEntry("Expenses:Mapped:Two", YnabMeta("x2")) >>,
      << OpenEntry("Assets:Mapped:Old", YnabMeta("x1")),
         OpenEntry("Assets:Mapped:New", YnabMeta("x1")),
         TxnEntry(YnabMeta("x2")),
         OpenEntry("Equity:Mapped:Unknown", YnabMeta("zz")) >> }

-----------------------------------------------------------------------------
(* The import loop, lines 366-424                                          *)

\* The filter without its `not t['deleted']` half.
EligibleIgnoresDeleted(t) == t.cleared = "reconciled"

\* Line 372: the generator's filter.
Eligible(t) == t.cleared = "reconciled" /\ ~t.deleted

\* The skip decided on the payee alone, whatever the category.
SkipsStartingBalanceAnyCategory(t) ==
    args.skip_starting_balances /\ t.payee_name = StartingBalance

\* Lines 375-384: both `continue` branches under --skip-starting-balances.
SkipsStartingBalance(t) ==
    /\ args.skip_starting_balances
    /\ \/ t.payee_name = StartingBalance /\ t.category_id = inflows_category_id
       \/ t.payee_name = StartingBalance /\ ~Truthy(t.category_id)

\* Line 386: the condition of the warning.
WarnsIncomplete(t) == ~Truthy(t.category_id) /\ ~Truthy(t.transfer_account_id)

\* The deduplication consulting the identifiers scanned from the ledger only,
\* not the set as extended during the run.
IsDuplicateLedgerOnly(t) ==
    \/ t.id \in get_existing_ynab_transaction_ids(beancount_entries)
    \/ t.transfer_transaction_id \in get_existing_ynab_transaction_ids(beancount_entries)

\* Lines 395-400: both deduplication checks.
IsDuplicate(t) ==
    \/ t.id \in seen_transactions
    \/ t.transfer_transaction_id \in seen_transactions

\* The marking with line 407 lost: only counterpart identifiers are added.
MarkImportedCounterpartsOnly(t) ==
    (IF Truthy(t.transfer_transaction_id) THEN {t.transfer_transaction_id} ELSE {})
      \cup { t.subtransactions[k].transfer_transaction_id :
               k \in { j \in 1..Len(t.subtransactions) :
                         Truthy(t.subtransactions[j].transfer_transaction_id) } }

\* The marking with line 407 moved into the non-split branch of line 419.
MarkImportedOwnIdUnlessSplit(t) ==
    (IF t.subtransactions = <<>> THEN {t.id} ELSE {})
      \cup (IF Truthy(t.transfer_transaction_id) THEN {t.transfer_transaction_id} ELSE {})
      \cup { t.subtransactions[k].transfer_transaction_id :
               k \in { j \in 1..Len(t.subtransactions) :
                         Truthy(t.subtransactions[j].transfer_transaction_id) } }

\* Lines 407, 408 and 418: the identifiers an imported transaction marks.
MarkImported(t) ==
    {t.id}
      \cup (IF Truthy(t.transfer_transaction_id) THEN {t.transfer_transaction_id} ELSE {})
      \cup { t.subtransactions[k].transfer_transaction_id :
               k \in { j \in 1..Len(t.subtransactions) :
                         Truthy(t.subtransactions[j].transfer_transaction_id) } }

\* Lines 411-420: one target posting per subtransaction, or a single bare one.
Legs(t) ==
    IF t.subtransactions # <<>>
    THEN [k \in 1..Len(t.subtransactions) |->
            get_target_account(t.subtransactions[k], args.balance_adjustment_account)]
    ELSE << get_target_account(t, args.balance_adjustment_account) >>

\* Lines 403-422: the printed entry; pos is the record's position in the fetch.
Entry(t, pos) ==
    [pos |-> pos, id |-> t.id, payee |-> t.payee_name,
     source |-> to_bean(t.account_id), legs |-> Legs(t)]

\* The record the loop takes next: any record of the service in a first run,
\* the recorded list in a second run.
Takes(t) ==
    IF run = 1
    THEN i < MaxTxns /\ t \in remote
    ELSE i < Len(replay) /\ t = replay[i + 1]

Consume(t) ==
    /\ i' = i + 1
    /\ fetched' = IF run = 1 THEN Append(fetched, t) ELSE fetched

\* Line 387: logging.warning, made before the deduplication checks.
LogWarning(t) ==
    warned' = IF WarnsIncomplete(t) THEN warned \cup {i + 1} ELSE warned

InitWith(ledgers, argsets, setups, pool) ==
    /\ beancount_entries \in ledgers
    /\ args \in argsets
    /\ \E tb \in setups :
         /\ ynab_accounts = tb.accounts
         /\ ynab_category_groups = tb.groups
         /\ ynab_categories = tb.categories
    /\ remote = pool
    /\ seen_transactions = {}
    /\ account_mapping = NoMeta
    /\ inflows_category_id = None
    /\ count = 0
    /\ out = <<>>
    /\ warned = {}
    /\ fetched = <<>>
    /\ i = 0
    /\ pc = "load"
    /\ run = 1
    /\ replay = <<>>
    /\ first = [ids |-> {}, count |-> 0]
    /\ bean = <<None, None>>

Init == InitWith(Ledgers, ArgSets, TableSetups, MainPool)

\* Lines 315 and 318: scan the ledger.
Load ==
    /\ pc = "load"
    /\ seen_transactions' = get_existing_ynab_transaction_ids(beancount_entries)
    /\ account_mapping' = build_account_mapping(beancount_entries)
    /\ pc' = "resolve"
    /\ UNCHANGED <<beancount_entries, args, ynab_accounts, ynab_category_groups,
                   ynab_categories, remote, inflows_category_id, count, out,
                   warned, fetched, i, run, replay, first, bean>>

\* The assertions weakened to "at least one match", r[0] taken of several.
ResolutionAtLeastOne ==
    /\ Cardinality(InternalMasterIds(ynab_category_groups)) >= 1
    /\ \E m \in InternalMasterIds(ynab_category_groups) :
         Cardinality(InflowsIds(ynab_categories, m)) >= 1

\* Lines 348 and 351: both assertions pass.
ResolutionOK ==
    /\ Cardinality(InternalMasterIds(ynab_category_groups)) = 1
    /\ \A m \in InternalMasterIds(ynab_category_groups) :
         Cardinality(InflowsIds(ynab_categories, m)) = 1

\* Lines 349 and 352: r[0].
ResolvedInflows ==
    LET m == CHOOSE g \in InternalMasterIds(ynab_category_groups) : TRUE
    IN CHOOSE c \in InflowsIds(ynab_categories, m) : TRUE

\* Lines 347-366: resolve the inflows category, then count = 0.
Resolve ==
    /\ pc = "resolve"
    /\ ResolutionOK
    /\ inflows_category_id' = ResolvedInflows
    /\ count' = 0
    /\ pc' = "loop"
    /\ UNCHANGED <<beancount_entries, args, ynab_accounts, ynab_category_groups,
                   ynab_categories, remote, seen_transactions, account_mapping,
                   out, warned, fetched, i, run, replay, first, bean>>

\* Lines 348 and 351: an assertion fails and the script ends.
ResolveFail ==
    /\ pc = "resolve"
    /\ ~ResolutionOK
    /\ pc' = "error"
    /\ UNCHANGED <<beancount_entries, args, ynab_accounts, ynab_category_groups,
                   ynab_categories, remote, seen_transactions, account_mapping,
                   inflows_category_id, count, out, warned, fetched, i, run,
                   replay, first, bean>>

\* Line 372: a record the filter drops.
Filtered(t) ==
    /\ pc = "loop"
    /\ Takes(t)
    /\ ~Eligible(t)
    /\ Consume(t)
    /\ UNCHANGED <<beancount_entries, args, ynab_accounts, ynab_category_groups,
                   ynab_categories, remote, seen_transactions, account_mapping,
                   inflows_category_id, count, out, warned, pc, run, replay,
                   first, bean>>

\* Lines 375-384: a starting balance that is skipped.
SkipStartingBalance(t) ==
    /\ pc = "loop"
    /\ Takes(t)
    /\ Eligible(t)
    /\ SkipsStartingBalance(t)
    /\ Consume(t)
    /\ UNCHANGED <<beancount_entries, args, ynab_accounts, ynab_category_groups,
                   ynab_categories, remote, seen_transactions, account_mapping,
                   inflows_category_id, count, out, warned, pc, run, replay,
                   first, bean>>

\* Lines 386-400: the warning, then a `continue` of the deduplication.
SkipDuplicate(t) ==
    /\ pc = "loop"
    /\ Takes(t)
    /\ Eligible(t)
    /\ ~SkipsStartingBalance(t)
    /\ LogWarning(t)
    /\ IsDuplicate(t)
    /\ Consume(t)
    /\ UNCHANGED <<beancount_entries, args, ynab_accounts, ynab_category_groups,
                   ynab_categories, remote, seen_transactions, account_mapping,
                   inflows_category_id, count, out, pc, run, replay, first, bean>>

\* Lines 386-422: the warning, then the entry is counted, printed and marked.
Import(t) ==
    /\ pc = "loop"
    /\ Takes(t)
    /\ Eligible(t)
    /\ ~SkipsStartingBalance(t)
    /\ LogWarning(t)
    /\ ~IsDuplicate(t)
    /\ count' = count + 1
    /\ out' = Append(out, Entry(t, i + 1))
    /\ seen_transactions' = seen_transactions \cup MarkImported(t)
    /\ Consume(t)
    /\ UNCHANGED <<beancount_entries, args, ynab_accounts, ynab_category_groups,
                   ynab_categories, remote, account_mapping, inflows_category_id,
                   pc, run, replay, first, bean>>

\* Line 424: the list is exhausted.
Finish ==
    /\ pc = "loop"
    /\ run = 1 \/ i = Len(replay)
    /\ pc' = "done"
    /\ UNCHANGED <<beancount_entries, args, ynab_accounts, ynab_category_groups,
                   ynab_categories, remote, seen_transactions, account_mapping,
                   inflows_category_id, count, out, warned, fetched, i, run,
                   replay, first, bean>>

\* The records a loop iteration can be given.
Source == remote \cup { replay[k] : k \in 1..Len(replay) }

Next ==
    \/ Load
    \/ Resolve
    \/ ResolveFail
    \/ \E t \in Source : Filtered(t)
    \/ \E t \in Source : SkipStartingBalance(t)
    \/ \E t \in Source : SkipDuplicate(t)
    \/ \E t \in Source : Import(t)
    \/ Finish

Spec == Init /\ [][Next]_vars

-----------------------------------------------------------------------------
(* A second run of the script                                              *)

\* The identifiers on the printed ynab-id lines (line 404).
PrintedIds == { out[k].id : k \in 1..Len(out) }

\* The printed entries as the ledger parser returns them on the next run:
\* transactions whose metadata holds the ynab-id line.
PrintedEntries == [k \in 1..Len(out) |-> TxnEntry(YnabMeta(out[k].id))]

\* The orderings of a list.
Orderings(seq) ==
    { [k \in 1..Len(seq) |-> seq[p[k]]] :
        p \in { q \in [1..Len(seq) -> 1..Len(seq)] :
                  \A a, b \in 1..Len(seq) : q[a] = q[b] => a = b } }

\* A fresh process: everything the script computes is reset.
Restart ==
    /\ first' = [ids |-> PrintedIds, count |-> count]
    /\ run' = 2
    /\ pc' = "load"
    /\ seen_transactions' = {}
    /\ account_mapping' = NoMeta
    /\ inflows_category_id' = None
    /\ count' = 0
    /\ out' = <<>>
    /\ warned' = {}
    /\ i' = 0
    /\ UNCHANGED <<args, ynab_accounts, ynab_category_groups, ynab_categories,
                   remote, fetched, bean>>

\* The output of the first run is appended to the ledger and the script is run
\* again on the same list of transactions.
Rerun ==
    /\ pc = "done"
    /\ run = 1
    /\ beancount_entries' = beancount_entries \o PrintedEntries
    /\ replay' = fetched
    /\ Restart

\* The script is run again on the same ledger and the same transactions in
\* another order.
Reorder ==
    /\ pc = "done"
    /\ run = 1
    /\ beancount_entries' = beancount_entries
    /\ replay' \in Orderings(fetched)
    /\ Restart

InitRerun ==
    InitWith({LedgerEmpty, LedgerA},
             [skip_starting_balances : BOOLEAN,
              balance_adjustment_account : {None}],
             {TablesOK, TablesNoMaster}, RerunPool)

NextRerun == Next \/ Rerun

SpecRerun == InitRerun /\ [][NextRerun]_vars

InitOrder ==
    \/ InitWith({LedgerEmpty},
                [skip_starting_balances : {FALSE},
                 balance_adjustment_account : {None}],
                {TablesOK, TablesNoMaster}, OrderPool)
    \/ InitWith({LedgerB},
                [skip_starting_balances : {TRUE},
                 balance_adjustment_account : {None}],
                {TablesOK}, OrderPool)

NextOrder == Next \/ Reorder

SpecOrder == InitOrder /\ [][NextOrder]_vars

-----------------------------------------------------------------------------
(* The router called on its own                                            *)

\* A call of to_bean (lines 354-364) once the inflows category is resolved.
Route(id) ==
    /\ pc = "loop"
    /\ bean' = <<id, to_bean(id)>>
    /\ UNCHANGED <<beancount_entries, args, ynab_accounts, ynab_category_groups,
                   ynab_categories, remote, seen_transactions, account_mapping,
                   inflows_category_id, count, out, warned, fetched, i, pc, run,
                   replay, first>>

InitRouter ==
    InitWith(RouterLedgers,
             [skip_starting_balances : {FALSE},
              balance_adjustment_account : {None}],
             RouterSetups, {})

NextRouter ==
    \/ Load
    \/ Resolve
    \/ \E id \in RouterIds : Route(id)

SpecRouter == InitRouter /\ [][NextRouter]_vars

-----------------------------------------------------------------------------
(* Vocabulary of the properties                                            *)

\* The list of transactions the current run works through.
InputSeq == IF run = 1 THEN fetched ELSE replay

\* The seen set the current run started from.
InitialSeen == get_existing_ynab_transaction_ids(beancount_entries)

\* The record at position p of the current run was printed.
EmittedAt(p) == \E k \in 1..Len(out) : out[k].pos = p

\* The targets of the postings of a printed entry.
LegSet(e) == { e.legs[k] : k \in 1..Len(e.legs) }

\* Reconciled and not deleted.
IsReconciled(t) == t.cleared = "reconciled" /\ t.deleted = FALSE

\* The starting-balance rule as the documentation words it.
DroppedAsStartingBalance(t) ==
    /\ args.skip_starting_balances = TRUE
    /\ t.payee_name = "Starting Balance"
    /\ t.category_id = inflows_category_id \/ t.category_id \in {None, ""}

\* Every identifier a record carries: its own, its counterpart's and those of
\* the counterparts of its subtransactions.
IdsCarried(t) ==
    ({t.id, t.transfer_transaction_id}
       \cup { t.subtransactions[k].transfer_transaction_id :
                k \in 1..Len(t.subtransactions) }) \ {None, ""}

-----------------------------------------------------------------------------
(* C3                                                                      *)

\* C3 (reconciliation filter): an iteration over a record whose status is
\* uncleared or cleared, or whose deleted flag is set, prints no entry, leaves
\* the import count as it was and adds nothing to the seen set, whatever the
\* skip-starting-balances flag and the adjustment account are.
ReconciliationFilter ==
    [][ i' = i + 1 =>
          LET t == InputSeq'[i']
          IN (t.cleared \in {"uncleared", "cleared"} \/ t.deleted = TRUE) =>
               /\ out' = out
               /\ count' = count
               /\ seen_transactions' = seen_transactions ]_vars

\* An uncleared, a cleared and a deleted record, each carrying counterpart
\* identifiers, have all been processed with the flag and the account set.
ReconciliationFilterWitness ==
    /\ pc = "loop"
    /\ i = 3
    /\ args.skip_starting_balances
    /\ args.balance_adjustment_account # None
    /\ { fetched[k] : k \in 1..i } = { Uncleared, Cleared, Deleted }
    /\ out = <<>>
    /\ count = 0
    /\ seen_transactions = InitialSeen

-----------------------------------------------------------------------------
(* C7                                                                      *)

\* C7 (starting-balance skip): with skip-starting-balances set, an iteration
\* over a reconciled, non-deleted record whose payee is 'Starting Balance' and
\* whose category is the inflows category or is missing prints nothing, does
\* not count and adds nothing to the seen set.  Any other reconciled,
\* non-deleted record (a starting balance with another category, or any record
\* when the flag is off) is not dropped by the rule: unless it is a duplicate
\* it is counted, printed and marked.
StartingBalanceSkip ==
    [][ i' = i + 1 =>
          LET t == InputSeq'[i']
          IN IsReconciled(t) =>
               IF /\ args.skip_starting_balances = TRUE
                  /\ t.payee_name = "Starting Balance"
                  /\ t.category_id = inflows_category_id \/ t.category_id = None
               THEN /\ out' = out
                    /\ count' = count
                    /\ seen_transactions' = seen_transactions
               ELSE (/\ t.id \notin seen_transactions
                     /\ t.transfer_transaction_id \notin seen_transactions)
                    => /\ count' = count + 1
                       /\ Len(out') = Len(out) + 1
                       /\ out'[Len(out')].id = t.id
                       /\ t.id \in seen_transactions' ]_vars

\* With the flag set, the budget-account and the tracking-account starting
\* balances were dropped and the one with another category was imported.
StartingBalanceSkipWitness ==
    /\ pc = "loop"
    /\ i = 3
    /\ args.skip_starting_balances
    /\ fetched = << StartBudget, StartOther, StartTracking >>
    /\ Len(out) = 1
    /\ out[1].id = StartOther.id
    /\ count = 1
    /\ seen_transactions = InitialSeen \cup {StartOther.id}

-----------------------------------------------------------------------------
(* C9                                                                      *)

\* The number of groups named Internal-Master-Category is not one, or the
\* number of Inflows categories of that group is not one.
ResolutionAmbiguous ==
    LET masters == { g \in DOMAIN ynab_category_groups :
                       ynab_category_groups[g].name = "Internal-Master-Category" }
    IN \/ Cardinality(masters) # 1
       \/ \E g \in masters :
            Cardinality({ c \in DOMAIN ynab_categories :
                            /\ ynab_categories[c].name = "Inflows"
                            /\ ynab_categories[c].category_group_id = g }) # 1

\* C9 (fatal resolution error is all-or-nothing): when the master group or its
\* Inflows category is not found exactly once, the run never enters the import
\* loop and ends in error with nothing printed, the count at zero and the seen
\* set as scanned from the ledger; and no run is in error with an entry printed.
ResolutionAllOrNothing ==
    /\ ResolutionAmbiguous =>
         /\ pc \in {"load", "resolve", "error"}
         /\ out = <<>>
         /\ count = 0
         /\ seen_transactions \subseteq InitialSeen
    /\ pc = "resolve" /\ ResolutionAmbiguous => ~ENABLED Resolve
    /\ pc = "error" =>
         /\ out = <<>>
         /\ count = 0
         /\ seen_transactions = InitialSeen

\* A run that ended in error because the master group owns two Inflows
\* categories, over a ledger that already holds imported transactions.
ResolutionAllOrNothingWitness ==
    /\ pc = "error"
    /\ Cardinality(InternalMasterIds(ynab_category_groups)) = 1
    /\ \E g \in DOMAIN ynab_category_groups :
         Cardinality(InflowsIds(ynab_categories, g)) = 2
    /\ InitialSeen # {}

-----------------------------------------------------------------------------
(* C10                                                                     *)

\* C10 (invariant of the import loop): once the ledger is scanned the seen set
\* contains its initial value; the printed identifiers are pairwise distinct
\* and none of them was in the initial seen set; the import count is the
\* number of entries printed.
ImportLoopInvariant ==
    /\ pc # "load" => InitialSeen \subseteq seen_transactions
    /\ \A k \in 1..Len(out) : out[k].id \notin InitialSeen
    /\ \A j, k \in 1..Len(out) : out[j].id = out[k].id => j = k
    /\ count = Len(out)

\* The fetch held the same identifier three times over; the first was printed,
\* the others were not, over a ledger with imported transactions.
ImportLoopInvariantWitness ==
    /\ pc = "done"
    /\ i = 3
    /\ \A p \in 1..3 : fetched[p].id = "t1" /\ Eligible(fetched[p])
    /\ fetched[1] # fetched[2]
    /\ EmittedAt(1) /\ ~EmittedAt(2) /\ ~EmittedAt(3)
    /\ InitialSeen # {}
    /\ count = 1

-----------------------------------------------------------------------------
(* C2                                                                      *)

\* Positions p < q of the current run hold the two legs of a transfer: both
\* reconciled, not deleted, not dropped as starting balances, each naming the
\* other as its counterpart, neither identifier in the initial seen set.
TransferPairAt(p, q) ==
    /\ p < q
    /\ IsReconciled(InputSeq[p]) /\ IsReconciled(InputSeq[q])
    /\ ~DroppedAsStartingBalance(InputSeq[p])
    /\ ~DroppedAsStartingBalance(InputSeq[q])
    /\ InputSeq[p].transfer_transaction_id = InputSeq[q].id
    /\ InputSeq[q].transfer_transaction_id = InputSeq[p].id
    /\ InputSeq[p].id \notin InitialSeen
    /\ InputSeq[q].id \notin InitialSeen

\* The records of the fetch have pairwise distinct identifiers.
DistinctIds ==
    \A p, q \in 1..Len(fetched) : fetched[p].id = fetched[q].id => p = q

\* Every record of the fetch that another record names as its counterpart
\* names that record back.
MutualLinks ==
    \A p, q \in 1..Len(fetched) :
        fetched[p].transfer_transaction_id = fetched[q].id
            => fetched[q].transfer_transaction_id = fetched[p].id

\* C2 (transfer-pair suppression): in a fetch whose identifiers are pairwise
\* distinct and whose transfers name each other, of two reconciled, not
\* deleted, not dropped transactions that name each other as counterpart,
\* neither identifier in the initial seen set, the first one encountered is
\* printed and the later one is skipped, whichever of the two comes first.
TransferPairExactlyOne ==
    (DistinctIds /\ MutualLinks) =>
        \A p, q \in 1..i :
            TransferPairAt(p, q) => EmittedAt(p) /\ ~EmittedAt(q)

\* Both legs were processed, the one with the larger identifier first, after
\* an unrelated printed entry: the first leg was printed, the second skipped.
TransferPairExactlyOneWitness ==
    /\ pc = "loop"
    /\ fetched = << Tracking, XferB, XferA >>
    /\ DistinctIds /\ MutualLinks
    /\ TransferPairAt(2, 3)
    /\ EmittedAt(1) /\ EmittedAt(2) /\ ~EmittedAt(3)
    /\ count = 2

-----------------------------------------------------------------------------
(* C4                                                                      *)

\* C4 (a duplicate is skipped without side effects): an iteration over a
\* record whose own identifier or whose counterpart identifier is in the seen
\* set prints nothing, leaves the count and the seen set as they were and logs
\* no warning.
DuplicateSkippedSilently ==
    [][ i' = i + 1 =>
          LET t == InputSeq'[i']
          IN (\/ t.id \in seen_transactions
              \/ t.transfer_transaction_id \in seen_transactions) =>
               /\ out' = out
               /\ count' = count
               /\ seen_transactions' = seen_transactions
               /\ warned' = warned ]_vars

-----------------------------------------------------------------------------
(* C6                                                                      *)

\* C6 (incomplete records are flagged and emitted): an iteration over a
\* reconciled, non-deleted record that is not dropped as a starting balance,
\* is no duplicate and has neither a category nor a transfer account counts
\* it, prints it with its ynab-id, its source posting and the FIXME
\* placeholder as its second leg, and logs a warning for it; and a FIXME
\* placeholder is printed only for a record a warning was logged for.
IncompleteFlaggedAndEmitted ==
    [][ i' = i + 1 =>
          LET t == InputSeq'[i']
          IN /\ (/\ IsReconciled(t)
                 /\ ~DroppedAsStartingBalance(t)
                 /\ t.id \notin seen_transactions
                 /\ t.transfer_transaction_id \notin seen_transactions
                 /\ t.category_id = None
                 /\ t.transfer_account_id = None)
                => /\ count' = count + 1
                   /\ Len(out') = Len(out) + 1
                   /\ out'[Len(out')].id = t.id
                   /\ out'[Len(out')].source = to_bean(t.account_id)
                   /\ out'[Len(out')].legs = << FIXME >>
                   /\ i' \in warned'
             /\ \A k \in 1..Len(out') :
                    FIXME \in LegSet(out'[k]) => out'[k].pos \in warned' ]_vars

-----------------------------------------------------------------------------
(* C1                                                                      *)

\* C1 (idempotence): a second run over the same list of transactions, with
\* the ledger extended by exactly the entries the first run printed, prints no
\* entry and ends with import count 0.  Stated for fetches whose identifiers
\* are pairwise distinct and whose transfers name each other, so that a
\* violation does not rest on malformed data.
SecondRunImportsNothing ==
    (run = 2 /\ DistinctIds /\ MutualLinks) => out = <<>> /\ count = 0

-----------------------------------------------------------------------------
(* C8                                                                      *)

\* No record of the fetch has a transfer counterpart, on itself or on a
\* subtransaction.
NoTransfers ==
    \A p \in 1..Len(fetched) : IdsCarried(fetched[p]) = {fetched[p].id}

\* C8 as claimed (insensitivity to fetch ordering): a run over the same
\* transactions in another order, from the same ledger and options, ends with
\* the same set of printed identifiers and the same import count.  Stated for
\* fetches whose identifiers are pairwise distinct and whose transfers name
\* each other, so that a violation does not rest on malformed data.
OrderInsensitive ==
    (run = 2 /\ pc = "done" /\ DistinctIds /\ MutualLinks) =>
        PrintedIds = first.ids /\ count = first.count

\* C8 as amended: the same holds of every fetch in which no record has a
\* transfer counterpart, on itself or on a subtransaction.
OrderInsensitiveWithoutTransfers ==
    (run = 2 /\ pc = "done" /\ NoTransfers) =>
        PrintedIds = first.ids /\ count = first.count

\* A second run over three records without counterparts, two of them sharing
\* an identifier, in reversed order, ended with the same two entries.
OrderInsensitiveWithoutTransfersWitness ==
    /\ run = 2
    /\ pc = "done"
    /\ fetched = << Plain, StartTracking, SplitBare >>
    /\ replay = << SplitBare, StartTracking, Plain >>
    /\ NoTransfers
    /\ args.skip_starting_balances = FALSE
    /\ first = [ids |-> {"t1", "t2"}, count |-> 2]
    /\ count = 2

-----------------------------------------------------------------------------
(* C5                                                                      *)

\* The path of the Account Mapping Table for id: the account of the last Open
\* directive of the ledger that carries id as its ynab-id.
MappedPath(id) ==
    LET opens == { k \in 1..Len(beancount_entries) :
                     /\ beancount_entries[k].type = "Open"
                     /\ "ynab-id" \in DOMAIN beancount_entries[k].meta
                     /\ beancount_entries[k].meta["ynab-id"] = id }
    IN beancount_entries[CHOOSE k \in opens : \A j \in opens : j <= k].account

IsMapped(id) ==
    \E k \in 1..Len(beancount_entries) :
        /\ beancount_entries[k].type = "Open"
        /\ "ynab-id" \in DOMAIN beancount_entries[k].meta
        /\ beancount_entries[k].meta["ynab-id"] = id

\* <group>:<category> of a category.
GroupAndCategory(id) ==
    ynab_category_groups[ynab_categories[id].category_group_id].name
      \o ":" \o ynab_categories[id].name

\* C5 (router decision order): to_bean(id) is the mapped path when id is in
\* the Account Mapping Table; otherwise Assets:<account name> when id is a
\* remote account; otherwise Income:<group>:<category> when id is the inflows
\* category; otherwise Expenses:<group>:<category> when id is a remote
\* category; otherwise id itself.
RouterDecisionOrder ==
    bean[1] # None =>
        bean[2] =
            IF IsMapped(bean[1]) THEN MappedPath(bean[1])
            ELSE IF bean[1] \in DOMAIN ynab_accounts
            THEN "Assets:" \o ynab_accounts[bean[1]].name
            ELSE IF bean[1] = inflows_category_id
            THEN "Income:" \o GroupAndCategory(bean[1])
            ELSE IF bean[1] \in DOMAIN ynab_categories
            THEN "Expenses:" \o GroupAndCategory(bean[1])
            ELSE bean[1]

\* to_bean was called on an identifier that is mapped twice in the ledger and
\* is both a remote account and a remote category: the later mapping won.
RouterDecisionOrderWitness ==
    /\ bean[1] = "x1"
    /\ "x1" \in DOMAIN ynab_accounts
    /\ "x1" \in DOMAIN ynab_categories
    /\ IsMapped("x1")
    /\ bean[2] = "Assets:Mapped:New"

====
